---- MODULE Spec2Model ----
(***************************************************************************)
(* Model of the rce-agent server (src/server.go): the job registry, the id *)
(* allocator, the per-job runner goroutine, the two output collector       *)
(* goroutines, the child process, and the request handlers StartJob,       *)
(* GetJobStatus, StopJob and GetJobs running in concurrent client          *)
(* goroutines.                                                             *)
(*                                                                         *)
(* Granularity.  Every acquisition of a mutex is a step of its own or the  *)
(* first thing of a step; a block that runs under a mutex and touches only *)
(* data that every goroutine touches under the same mutex is one step.     *)
(* Where a goroutine reads a field WITHOUT the mutex (StopJob reads        *)
(* Status.Status and Status.PID bare, lines 206 and 211) the writes under  *)
(* the mutex are separate steps, so that the bare read can fall between    *)
(* them.  The registry's RWMutex jobsM guards only map accesses, each of   *)
(* which is one step.  Steps that touch nothing another goroutine sees are *)
(* joined to the step before them: the two pipe set-ups and cmd.Start()    *)
(* are one step of the runner per outcome, a handler's return follows its  *)
(* last step at once, and a process writes its output as it starts (the    *)
(* pipes buffer it).  The clock advances in the steps that read it.        *)
(*                                                                         *)
(* Slices.  Status.Stdout and Status.Stderr are Go slices: allJobs holds   *)
(* the elements each shows, backing the array it points to, so that what a *)
(* copied slice header shares with the job's status is part of the model.  *)
(***************************************************************************)
EXTENDS Integers, Sequences, FiniteSets, TLC

\* ------------------------------------------------------------------ bounds
MaxJobs == 2      \* StartJob is not called once nextID has reached MaxJobs
NumClients == 2   \* concurrent request goroutines
MaxTime == 2      \* time.Now().Unix() ranges over 1..MaxTime
MaxProcs == 1     \* the system lets the agent fork MaxProcs times, then no more
MaxRequests == 2  \* the agent receives at most MaxRequests requests

\* --------------------------------------------------------- program constants
STATUS_NOT_STARTED == 0
STATUS_RUNNING == 1
STATUS_COMPLETED == 2

Clients == 1..NumClients
JobIDs == 0..(MaxJobs - 1)
\* ids a caller may ask about: every id that can exist and one that never does
LookupIDs == 0..MaxJobs
Streams == {"stdout", "stderr"}
Times == 1..MaxTime

\* the whitelist loaded by NewServer: command name -> executable
runnableCommands == [echo |-> "/bin/echo-test", sleep |-> "/bin/sleep"]
\* command names a request may carry; "nope" is not whitelisted
CommandNames == {"echo", "sleep", "nope"}

\* What each executable writes, in order, which it does as it starts (the pipes
\* buffer it).  A write goes to one stream and is a sequence of characters; a
\* line ends with "\n".  echo-test writes two lines and a last line without a
\* newline to stdout; sleep writes one line to stderr.
Script(exe) ==
    IF exe = "/bin/echo-test"
    THEN << [stream |-> "stdout", data |-> <<" ", "a", "\n">>],
            [stream |-> "stdout", data |-> <<"b", " ", "\n">>],
            [stream |-> "stdout", data |-> <<"c">>] >>
    ELSE << [stream |-> "stderr", data |-> <<"e", "\n">>] >>

\* The ways an executable ends by itself: echo-test exits 0 or 1, sleep does
\* not end unless it is signalled.
OwnExits(exe) == IF exe = "/bin/echo-test" THEN {"exit0", "exit1"} ELSE {}

\* pid the operating system gives the process of job id (positive, distinct)
PidOf(id) == id + 1

NoOwner == <<"none", 0>>
ClientT(c) == <<"client", c>>
RunnerT(id) == <<"runner", id>>

\* ------------------------------------------------------------ pure helpers
IsSpace(ch) == ch \in {" ", "\n", "\t"}

RECURSIVE TrimLeft(_)
TrimLeft(s) ==
    IF s = << >> THEN << >>
    ELSE IF IsSpace(Head(s)) THEN TrimLeft(Tail(s)) ELSE s

RECURSIVE TrimRight(_)
TrimRight(s) ==
    IF s = << >> THEN << >>
    ELSE IF IsSpace(s[Len(s)]) THEN TrimRight(SubSeq(s, 1, Len(s) - 1)) ELSE s

\* strings.TrimSpace
TrimSpace(s) == TrimRight(TrimLeft(s))

\* a write that bufio's ReadString('\n') returns with a nil error
IsLine(w) == w # << >> /\ w[Len(w)] = "\n"

\* the writes to one stream among the writes of a script
RECURSIVE WritesTo(_, _)
WritesTo(script, stream) ==
    IF script = << >> THEN << >>
    ELSE IF Head(script).stream = stream
         THEN <<Head(script).data>> \o WritesTo(Tail(script), stream)
         ELSE WritesTo(Tail(script), stream)

\* the newline-terminated lines among a sequence of writes
RECURSIVE LinesOf(_)
LinesOf(ws) ==
    IF ws = << >> THEN << >>
    ELSE IF IsLine(Head(ws)) THEN <<Head(ws)>> \o LinesOf(Tail(ws))
         ELSE LinesOf(Tail(ws))

RECURSIVE MapTrim(_)
MapTrim(ls) ==
    IF ls = << >> THEN << >> ELSE <<TrimSpace(Head(ls))>> \o MapTrim(Tail(ls))

IsPrefix(s, t) == Len(s) <= Len(t) /\ SubSeq(t, 1, Len(s)) = s

\* -------------------------------------------------------------------- state
VARIABLES
    nextID,     \* server.nextID
    IDm,        \* server.IDm: its holder, or NoOwner
    allJobs,    \* server.allJobs: job id -> the job's pb.JobStatus
    statusM,    \* runningJob.statusM per job: holder or NoOwner
    stdoutM,    \* runningJob.stdoutM per job
    stderrM,    \* runningJob.stderrM per job
    client,     \* per client goroutine: position and locals of its request
    ret,        \* per client goroutine: what its last request returned
    runner,     \* per job: position and locals of its runJob goroutine
    coll,       \* per job and stream: position of copyPipeToStringArray
    proc,       \* per job: the child process
    now,        \* the latest value time.Now().Unix() returned, which the
                \* next call does not go below
    crashed,    \* the agent process died of an unrecovered panic
    requests,   \* history: the number of requests received
    issued,     \* history: the ids getNewJobID returned, in order
    signalled,  \* history: the pids a SIGTERM was delivered to
    seen,       \* history: per job, the state in the last snapshot taken of it
    backing,    \* per job and stream: the array the slice in job.Status points
                \* to: gen counts the arrays allocated for it (0: nil slice),
                \* cells are its elements, as many as its capacity
    snapOut     \* history: per job and stream, the slice of the last snapshot
                \* taken: the array it points to (gen) and the value it showed

vars == <<nextID, IDm, allJobs, statusM, stdoutM, stderrM, client, ret, runner,
          coll, proc, now, crashed, requests, issued, signalled, seen, backing,
                   snapOut>>

NoStatus == << >>

IdleClient == [pc |-> "idle", op |-> "none", id |-> 0, cmd |-> "", new |-> NoStatus]
Returning == [IdleClient EXCEPT !.pc = "return"]
NoRet == [op |-> "none", id |-> 0, err |-> "", status |-> NoStatus, ids |-> {}]

Init ==
    /\ nextID = 0
    /\ IDm = NoOwner
    /\ allJobs = << >>
    /\ statusM = [id \in JobIDs |-> NoOwner]
    /\ stdoutM = [id \in JobIDs |-> NoOwner]
    /\ stderrM = [id \in JobIDs |-> NoOwner]
    /\ client = [c \in Clients |-> IdleClient]
    /\ ret = [c \in Clients |-> NoRet]
    /\ runner = [id \in JobIDs |-> [pc |-> "none", exit |-> "none"]]
    /\ coll = [id \in JobIDs |-> [s \in Streams |-> [pc |-> "none", fetched |-> 0]]]
    /\ proc = [id \in JobIDs |-> [st |-> "none", exit |-> "none"]]
    /\ now = 1
    /\ crashed = FALSE
    /\ requests = 0
    /\ issued = << >>
    /\ signalled = {}
    /\ seen = [id \in JobIDs |-> STATUS_NOT_STARTED]
    /\ backing = [id \in JobIDs |-> [s \in Streams |-> [gen |-> 0, cells |-> << >>]]]
    /\ snapOut = [id \in JobIDs |-> [s \in Streams |-> [gen |-> 0, val |-> << >>]]]

\* A goroutine takes a step while the agent process lives.  A handler's return
\* is the step after the one that computed its result, and ret holds the
\* result in the state between the two; the return touches nothing shared, so
\* it is ordered before every other goroutine's next step.
Live == ~crashed /\ \A c \in Clients : client[c].pc # "return"

\* A request is served by a goroutine of its own; the goroutines are alike, so
\* the model gives a new request to the first one that is free.
Accepts(c) ==
    /\ client[c].pc = "idle"
    /\ \A d \in Clients : d < c => client[d].pc # "idle"

\* the handler returns to its caller and the goroutine of the request ends
Return(c) ==
    /\ ~crashed
    /\ client[c].pc = "return"
    /\ client' = [client EXCEPT ![c] = IdleClient]
    /\ ret' = [ret EXCEPT ![c] = NoRet]
    /\ UNCHANGED <<nextID, IDm, allJobs, statusM, stdoutM, stderrM, runner,
                   coll, proc, now, crashed, requests, issued, signalled,
                   seen, backing,
                   snapOut>>

\* ------------------------------------------------------------- the registry
\* s.allJobs[id] = job
Insert(m, id, st) ==
    [x \in (DOMAIN m) \cup {id} |-> IF x = id THEN st ELSE m[x]]

\* the pb.JobStatus literal of StartJob
NewJobStatus(id, cmd, t) ==
    [JobID |-> id, CommandName |-> cmd, Status |-> STATUS_NOT_STARTED,
     PID |-> 0, StartTime |-> t, FinishTime |-> 0, ExitCode |-> -1,
     Error |-> "", Stdout |-> << >>, Stderr |-> << >>]

\* ------------------------------------------------------------------ StartJob
\* getNewJobID without s.IDm.Lock()
getNewJobID_NoLock(c, cmd) ==
    /\ Live
    /\ Accepts(c)
    /\ requests < MaxRequests
    /\ requests' = requests + 1
    /\ nextID < MaxJobs
    /\ IDm' = ClientT(c)
    /\ client' = [client EXCEPT ![c] =
            [pc |-> "gni", op |-> "StartJob", id |-> nextID, cmd |-> cmd,
             new |-> NoStatus]]
    /\ UNCHANGED <<nextID, allJobs, statusM, stdoutM, stderrM, ret, runner,
                   coll, proc, now, crashed, issued, signalled, seen, backing,
                   snapOut>>

\* getNewJobID: s.IDm.Lock(); myID := s.nextID
getNewJobID_Lock(c, cmd) ==
    /\ Live
    /\ Accepts(c)
    /\ requests < MaxRequests
    /\ requests' = requests + 1
    /\ nextID < MaxJobs
    /\ IDm = NoOwner
    /\ IDm' = ClientT(c)
    /\ client' = [client EXCEPT ![c] =
            [pc |-> "gni", op |-> "StartJob", id |-> nextID, cmd |-> cmd,
             new |-> NoStatus]]
    /\ UNCHANGED <<nextID, allJobs, statusM, stdoutM, stderrM, ret, runner,
                   coll, proc, now, crashed, issued, signalled, seen, backing,
                   snapOut>>

\* getNewJobID: s.nextID++; return myID (the deferred Unlock), and the rest of
\* the pb.JobStatus literal, whose StartTime is time.Now().Unix()
getNewJobID_Incr(c, t) ==
    /\ Live
    /\ client[c].pc = "gni"
    /\ t \in Times
    /\ t >= now
    /\ now' = t
    /\ nextID' = nextID + 1
    /\ IDm' = NoOwner
    /\ issued' = Append(issued, client[c].id)
    /\ client' = [client EXCEPT ![c].pc = "insert",
                                ![c].new = <<NewJobStatus(client[c].id, client[c].cmd, t)>>]
    /\ UNCHANGED <<allJobs, statusM, stdoutM, stderrM, ret, runner, coll, proc,
                   crashed, requests, signalled, seen, backing,
                   snapOut>>

\* s.jobsM.Lock(); s.allJobs[id] = newJob; s.jobsM.Unlock(); go s.runJob(newJob)
StartJob_Insert(c) ==
    /\ Live
    /\ client[c].pc = "insert"
    /\ allJobs' = Insert(allJobs, client[c].id, client[c].new[1])
    /\ runner' = [runner EXCEPT ![client[c].id] = [pc |-> "start", exit |-> "none"]]
    /\ client' = [client EXCEPT ![c].pc = "cs_status", ![c].new = NoStatus]
    /\ UNCHANGED <<nextID, IDm, statusM, stdoutM, stderrM, ret, coll, proc, now,
                   crashed, requests, issued, signalled, seen, backing,
                   snapOut>>

\* ---------------------------------------------------------------- CopyStatus
\* CopyStatus without rj.statusM.Lock()
CopyStatus_NoLockStatus(c) ==
    /\ Live
    /\ client[c].pc = "cs_status"
    /\ client' = [client EXCEPT ![c].pc = "cs_stdout"]
    /\ UNCHANGED <<nextID, IDm, allJobs, statusM, stdoutM, stderrM, ret, runner,
                   coll, proc, now, crashed, requests, issued, signalled, seen, backing,
                   snapOut>>

\* rj.statusM.Lock()
CopyStatus_LockStatus(c) ==
    /\ Live
    /\ client[c].pc = "cs_status"
    /\ statusM[client[c].id] = NoOwner
    /\ statusM' = [statusM EXCEPT ![client[c].id] = ClientT(c)]
    /\ client' = [client EXCEPT ![c].pc = "cs_stdout"]
    /\ UNCHANGED <<nextID, IDm, allJobs, stdoutM, stderrM, ret, runner, coll,
                   proc, now, crashed, requests, issued, signalled, seen, backing,
                   snapOut>>

\* CopyStatus taking stderrM before stdoutM
CopyStatus_LockStderrFirst(c) ==
    /\ Live
    /\ client[c].pc = "cs_stdout"
    /\ stderrM[client[c].id] = NoOwner
    /\ stderrM' = [stderrM EXCEPT ![client[c].id] = ClientT(c)]
    /\ client' = [client EXCEPT ![c].pc = "cs_stderr"]
    /\ UNCHANGED <<nextID, IDm, allJobs, statusM, stdoutM, ret, runner, coll,
                   proc, now, crashed, requests, issued, signalled, seen, backing,
                   snapOut>>

\* rj.stdoutM.Lock()
CopyStatus_LockStdout(c) ==
    /\ Live
    /\ client[c].pc = "cs_stdout"
    /\ stdoutM[client[c].id] = NoOwner
    /\ stdoutM' = [stdoutM EXCEPT ![client[c].id] = ClientT(c)]
    /\ client' = [client EXCEPT ![c].pc = "cs_stderr"]
    /\ UNCHANGED <<nextID, IDm, allJobs, statusM, stderrM, ret, runner, coll,
                   proc, now, crashed, requests, issued, signalled, seen, backing,
                   snapOut>>

\* a mutex given back by the client that holds it
Released(m, c, id) == [m EXCEPT ![id] = IF @ = ClientT(c) THEN NoOwner ELSE @]

\* rj.stderrM.Lock(); jc := &pb.JobStatus{}; *jc = *(rj.Status); the Unlocks
\* of stderrM, stdoutM and statusM; return jc, which the handler returns to
\* its caller with a nil error
CopyStatus_Copy(c) ==
    /\ Live
    /\ client[c].pc = "cs_stderr"
    /\ stderrM[client[c].id] = NoOwner
    /\ ret' = [ret EXCEPT ![c] =
            [op |-> client[c].op, id |-> client[c].id, err |-> "",
             status |-> <<allJobs[client[c].id]>>, ids |-> {}]]
    /\ seen' = [seen EXCEPT ![client[c].id] = allJobs[client[c].id].Status]
    /\ snapOut' = [snapOut EXCEPT ![client[c].id] =
            [s \in Streams |->
                [gen |-> backing[client[c].id][s].gen,
                 val |-> IF s = "stdout" THEN allJobs[client[c].id].Stdout
                                          ELSE allJobs[client[c].id].Stderr]]]
    /\ stdoutM' = Released(stdoutM, c, client[c].id)
    /\ statusM' = Released(statusM, c, client[c].id)
    /\ client' = [client EXCEPT ![c] = Returning]
    /\ UNCHANGED <<nextID, IDm, allJobs, stderrM, runner, coll, proc, now,
                   crashed, requests, issued, signalled, backing>>

\* -------------------------------------------------------------- GetJobStatus
\* getJobStatus returning a zero pb.JobStatus and no error for an id the
\* registry does not hold
getJobStatus_LookupZero(c, id) ==
    /\ Live
    /\ Accepts(c)
    /\ requests < MaxRequests
    /\ requests' = requests + 1
    /\ IF id \in DOMAIN allJobs
       THEN /\ client' = [client EXCEPT ![c] =
                    [pc |-> "cs_status", op |-> "GetJobStatus", id |-> id,
                     cmd |-> "", new |-> NoStatus]]
            /\ UNCHANGED ret
       ELSE /\ ret' = [ret EXCEPT ![c] =
                    [op |-> "GetJobStatus", id |-> id, err |-> "",
                     status |-> <<NewJobStatus(0, "", 0)>>, ids |-> {}]]
            /\ client' = [client EXCEPT ![c] = Returning]
    /\ UNCHANGED <<nextID, IDm, allJobs, statusM, stdoutM, stderrM, runner, coll,
                   proc, now, crashed, issued, signalled, seen, backing,
                   snapOut>>

\* getJobStatus: the lookup under s.jobsM.RLock(); "Job not found." or on to
\* CopyStatus
getJobStatus_Lookup(c, id) ==
    /\ Live
    /\ Accepts(c)
    /\ requests < MaxRequests
    /\ requests' = requests + 1
    /\ IF id \in DOMAIN allJobs
       THEN /\ client' = [client EXCEPT ![c] =
                    [pc |-> "cs_status", op |-> "GetJobStatus", id |-> id,
                     cmd |-> "", new |-> NoStatus]]
            /\ UNCHANGED ret
       ELSE /\ ret' = [ret EXCEPT ![c] =
                    [op |-> "GetJobStatus", id |-> id, err |-> "Job not found.",
                     status |-> NoStatus, ids |-> {}]]
            /\ client' = [client EXCEPT ![c] = Returning]
    /\ UNCHANGED <<nextID, IDm, allJobs, statusM, stdoutM, stderrM, runner, coll,
                   proc, now, crashed, issued, signalled, seen, backing,
                   snapOut>>

\* ------------------------------------------------------------------- StopJob
\* the lookup under s.jobsM.RLock(); "Job not found." or on to the check
StopJob_Lookup(c, id) ==
    /\ Live
    /\ Accepts(c)
    /\ requests < MaxRequests
    /\ requests' = requests + 1
    /\ IF id \in DOMAIN allJobs
       THEN /\ client' = [client EXCEPT ![c] =
                    [pc |-> "stop_check", op |-> "StopJob", id |-> id,
                     cmd |-> "", new |-> NoStatus]]
            /\ UNCHANGED ret
       ELSE /\ ret' = [ret EXCEPT ![c] =
                    [op |-> "StopJob", id |-> id, err |-> "Job not found.",
                     status |-> NoStatus, ids |-> {}]]
            /\ client' = [client EXCEPT ![c] = Returning]
    /\ UNCHANGED <<nextID, IDm, allJobs, statusM, stdoutM, stderrM, runner, coll,
                   proc, now, crashed, issued, signalled, seen, backing,
                   snapOut>>

\* the check written as job.Status.Status == STATUS_COMPLETED
StopJob_CheckCompleted(c) ==
    /\ Live
    /\ client[c].pc = "stop_check"
    /\ IF allJobs[client[c].id].Status = STATUS_COMPLETED
       THEN /\ ret' = [ret EXCEPT ![c] =
                    [op |-> "StopJob", id |-> client[c].id, err |-> "Job not running.",
                     status |-> NoStatus, ids |-> {}]]
            /\ client' = [client EXCEPT ![c] = Returning]
       ELSE /\ client' = [client EXCEPT ![c].pc = "stop_signal"]
            /\ UNCHANGED ret
    /\ UNCHANGED <<nextID, IDm, allJobs, statusM, stdoutM, stderrM, runner, coll,
                   proc, now, crashed, requests, issued, signalled, seen, backing,
                   snapOut>>

\* if job.Status.Status != STATUS_RUNNING: read without statusM
StopJob_Check(c) ==
    /\ Live
    /\ client[c].pc = "stop_check"
    /\ IF allJobs[client[c].id].Status # STATUS_RUNNING
       THEN /\ ret' = [ret EXCEPT ![c] =
                    [op |-> "StopJob", id |-> client[c].id, err |-> "Job not running.",
                     status |-> NoStatus, ids |-> {}]]
            /\ client' = [client EXCEPT ![c] = Returning]
       ELSE /\ client' = [client EXCEPT ![c].pc = "stop_signal"]
            /\ UNCHANGED ret
    /\ UNCHANGED <<nextID, IDm, allJobs, statusM, stdoutM, stderrM, runner, coll,
                   proc, now, crashed, requests, issued, signalled, seen, backing,
                   snapOut>>

\* The job whose process a kill(pid, SIGTERM) reaches: the one that was given
\* that pid and has not been reaped (running, or a zombie).  Pids are not
\* reused within the model's runs.
Target(pid) ==
    {j \in JobIDs : PidOf(j) = pid /\ proc[j].st \in {"running", "zombie"}}

\* os.FindProcess(int(job.Status.PID)), which on Unix only wraps the pid
\* (read without statusM) and never fails, then proc.Signal(syscall.SIGTERM):
\* "os: process not initialized" for pid 0, ESRCH for a reaped process.  A
\* running process dies of the signal (the default disposition); a zombie
\* takes it without effect.  On success getJobStatus looks the id up again.
StopJob_Signal(c) ==
    /\ Live
    /\ client[c].pc = "stop_signal"
    /\ LET id == client[c].id
           pid == allJobs[id].PID
       IN IF pid = 0 \/ Target(pid) = {}
          THEN /\ ret' = [ret EXCEPT ![c] =
                       [op |-> "StopJob", id |-> id, err |-> "Error killing pid",
                        status |-> NoStatus, ids |-> {}]]
               /\ client' = [client EXCEPT ![c] = Returning]
               /\ UNCHANGED <<proc, signalled,
                   requests, seen, backing,
                   snapOut>>
          ELSE /\ proc' = [j \in JobIDs |->
                       IF j \in Target(pid) /\ proc[j].st = "running"
                       THEN [proc[j] EXCEPT !.st = "zombie", !.exit = "sigterm"]
                       ELSE proc[j]]
               /\ signalled' = signalled \cup {pid}
               /\ client' = [client EXCEPT ![c].pc = "cs_status"]
               /\ UNCHANGED ret
    /\ UNCHANGED <<nextID, IDm, allJobs, statusM, stdoutM, stderrM, runner, coll,
                   now, crashed, requests, issued, seen, backing,
                   snapOut>>

\* ------------------------------------------------------------------- GetJobs
\* s.jobsM.RLock(); defer s.jobsM.RUnlock(); return nil -- the loop that sends
\* the ids is behind the return
GetJobs(c, since) ==
    /\ Live
    /\ Accepts(c)
    /\ requests < MaxRequests
    /\ requests' = requests + 1
    /\ ret' = [ret EXCEPT ![c] =
            [op |-> "GetJobs", id |-> since, err |-> "", status |-> NoStatus,
             ids |-> {}]]
    /\ client' = [client EXCEPT ![c] = Returning]
    /\ UNCHANGED <<nextID, IDm, allJobs, statusM, stdoutM, stderrM, runner,
                   coll, proc, now, crashed, issued, signalled, seen, backing,
                   snapOut>>

\* -------------------------------------------------------------------- runJob
ExeOf(id) == runnableCommands[allJobs[id].CommandName]

\* the job fails before its process exists: Status and Error under statusM
FailedStatus(st, msg) == [st EXCEPT !.Status = STATUS_COMPLETED, !.Error = msg]

\* the !ok branch without its return: the runner goes on to set up and start
\* a command it does not have
runJob_NotFound_NoReturn(id) ==
    /\ Live
    /\ runner[id].pc = "start"
    /\ allJobs[id].CommandName \notin DOMAIN runnableCommands
    /\ statusM[id] = NoOwner
    /\ allJobs' = [allJobs EXCEPT ![id] = FailedStatus(@, "Unable to find job for")]
    /\ runner' = [runner EXCEPT ![id].pc = "setRunning"]
    /\ proc' = [proc EXCEPT ![id].st = "nostart"]
    /\ UNCHANGED <<nextID, IDm, statusM, stdoutM, stderrM, client, ret, coll,
                   now, crashed, requests, issued, signalled, seen, backing,
                   snapOut>>

\* commandToExecute, ok := s.runnableCommands[...]; if !ok { ... return }
runJob_NotFound(id) ==
    /\ Live
    /\ runner[id].pc = "start"
    /\ allJobs[id].CommandName \notin DOMAIN runnableCommands
    /\ statusM[id] = NoOwner
    /\ allJobs' = [allJobs EXCEPT ![id] = FailedStatus(@, "Unable to find job for")]
    /\ runner' = [runner EXCEPT ![id].pc = "done"]
    /\ UNCHANGED <<nextID, IDm, statusM, stdoutM, stderrM, client, ret, coll,
                   proc, now, crashed, requests, issued, signalled, seen, backing,
                   snapOut>>

\* the child processes forked so far
Forked == {j \in JobIDs : proc[j].st \in {"running", "zombie", "reaped"}}

\* The outcomes of "Setup Command" and "Start Command" for a whitelisted
\* command, lines 292-321.  None of it is visible to another goroutine before
\* the step that follows it, so each outcome is one step:
\*   "stdoutPipe"  cmd.StdoutPipe() fails,
\*   "stderrPipe"  cmd.StderrPipe() fails, the stdout collector already runs,
\*   "start"       cmd.Start() fails, both collectors run,
\*   "ok"          the process runs, both collectors run.
SetupOutcomes == {"stdoutPipe", "stderrPipe", "start", "ok"}

\* a failing StdoutPipe or StderrPipe: Status and Error under statusM, return
runJob_PipeError(id, out) ==
    /\ Live
    /\ runner[id].pc = "start"
    /\ allJobs[id].CommandName \in DOMAIN runnableCommands
    /\ out \in {"stdoutPipe", "stderrPipe"}
    /\ statusM[id] = NoOwner
    /\ allJobs' = [allJobs EXCEPT ![id] = FailedStatus(@, "pipe: too many open files")]
    /\ coll' = [coll EXCEPT ![id]["stdout"].pc =
                    IF out = "stderrPipe" THEN "read" ELSE "none"]
    /\ runner' = [runner EXCEPT ![id].pc = "done"]
    /\ UNCHANGED <<nextID, IDm, statusM, stdoutM, stderrM, client, ret, proc,
                   now, crashed, requests, issued, signalled, seen, backing,
                   snapOut>>

\* both pipes, go copyPipeToStringArray twice, cmd.Start() with its error
\* dropped.  A failed Start leaves cmd.Process nil and closes both ends of both
\* pipes.
runJob_Start(id, ok) ==
    /\ Live
    /\ runner[id].pc = "start"
    /\ allJobs[id].CommandName \in DOMAIN runnableCommands
    /\ ok => Cardinality(Forked) < MaxProcs
    /\ proc' = [proc EXCEPT ![id].st = IF ok THEN "running" ELSE "nostart"]
    /\ coll' = [coll EXCEPT ![id]["stdout"].pc = "read", ![id]["stderr"].pc = "read"]
    /\ runner' = [runner EXCEPT ![id].pc = "setRunning"]
    /\ UNCHANGED <<nextID, IDm, allJobs, statusM, stdoutM, stderrM, client, ret,
                   now, crashed, requests, issued, signalled, seen, backing,
                   snapOut>>

\* job.statusM.Lock(); job.Status.Status = STATUS_RUNNING
runJob_SetRunning(id) ==
    /\ Live
    /\ runner[id].pc = "setRunning"
    /\ statusM[id] = NoOwner
    /\ statusM' = [statusM EXCEPT ![id] = RunnerT(id)]
    /\ allJobs' = [allJobs EXCEPT ![id].Status = STATUS_RUNNING]
    /\ runner' = [runner EXCEPT ![id].pc = "setPID"]
    /\ UNCHANGED <<nextID, IDm, stdoutM, stderrM, client, ret, coll, proc, now,
                   crashed, requests, issued, signalled, seen, backing,
                   snapOut>>

\* the runner setting ExitCode to 0 when it records the pid
runJob_SetPID_ZeroExit(id) ==
    /\ Live
    /\ runner[id].pc = "setPID"
    /\ proc[id].st # "nostart"
    /\ allJobs' = [allJobs EXCEPT ![id].PID = PidOf(id), ![id].ExitCode = 0]
    /\ statusM' = [statusM EXCEPT ![id] = NoOwner]
    /\ runner' = [runner EXCEPT ![id].pc = "wait"]
    /\ UNCHANGED <<nextID, IDm, stdoutM, stderrM, client, ret, coll, proc, now,
                   crashed, requests, issued, signalled, seen, backing,
                   snapOut>>

\* job.Status.PID = int64(cmd.Process.Pid); job.statusM.Unlock().  With
\* cmd.Process nil the dereference panics, and a panic in a goroutine that
\* nothing recovers ends the agent process.
runJob_SetPID(id) ==
    /\ Live
    /\ runner[id].pc = "setPID"
    /\ IF proc[id].st = "nostart"
       THEN /\ crashed' = TRUE
            /\ runner' = [runner EXCEPT ![id].pc = "panic"]
            /\ UNCHANGED <<allJobs, statusM,
                   requests, seen, backing,
                   snapOut>>
       ELSE /\ allJobs' = [allJobs EXCEPT ![id].PID = PidOf(id)]
            /\ statusM' = [statusM EXCEPT ![id] = NoOwner]
            /\ runner' = [runner EXCEPT ![id].pc = "wait"]
            /\ UNCHANGED crashed
    /\ UNCHANGED <<nextID, IDm, stdoutM, stderrM, client, ret, coll, proc, now,
                   requests, issued, signalled, seen, backing,
                   snapOut>>

\* exitError := cmd.Wait(): returns once the process has ended, reaps it and
\* closes the read ends of both pipes
runJob_Wait(id) ==
    /\ Live
    /\ runner[id].pc = "wait"
    /\ proc[id].st = "zombie"
    /\ proc' = [proc EXCEPT ![id].st = "reaped"]
    /\ runner' = [runner EXCEPT ![id].pc = "finish", ![id].exit = proc[id].exit]
    /\ UNCHANGED <<nextID, IDm, allJobs, statusM, stdoutM, stderrM, client, ret,
                   coll, now, crashed, requests, issued, signalled, seen, backing,
                   snapOut>>

\* job.statusM.Lock(); job.Status.FinishTime = time.Now().Unix() (the log line
\* that follows reads Stdout and Stderr and writes nothing)
runJob_Finish(id, t) ==
    /\ Live
    /\ runner[id].pc = "finish"
    /\ statusM[id] = NoOwner
    /\ t \in Times
    /\ t >= now
    /\ now' = t
    /\ statusM' = [statusM EXCEPT ![id] = RunnerT(id)]
    /\ allJobs' = [allJobs EXCEPT ![id].FinishTime = t]
    /\ runner' = [runner EXCEPT ![id].pc = "complete"]
    /\ UNCHANGED <<nextID, IDm, stdoutM, stderrM, client, ret, coll, proc,
                   crashed, requests, issued, signalled, seen, backing,
                   snapOut>>

\* "Collect the exit code of the command": nil -> ExitCode 0; an
\* *exec.ExitError with a syscall.WaitStatus -> ExitCode = ExitStatus(), which
\* is -1 for a process a signal ended, and Error = exiterr.Error()
Classified(st, exit) ==
    IF exit = "exit0" THEN [st EXCEPT !.ExitCode = 0]
    ELSE IF exit = "exit1"
         THEN [st EXCEPT !.ExitCode = 1, !.Error = "exit status 1"]
         ELSE [st EXCEPT !.ExitCode = -1, !.Error = "signal: terminated"]

\* the exit code and error, job.Status.Status = STATUS_COMPLETED,
\* job.statusM.Unlock()
runJob_Complete(id) ==
    /\ Live
    /\ runner[id].pc = "complete"
    /\ allJobs' = [allJobs EXCEPT ![id] =
            [Classified(@, runner[id].exit) EXCEPT !.Status = STATUS_COMPLETED]]
    /\ statusM' = [statusM EXCEPT ![id] = NoOwner]
    /\ runner' = [runner EXCEPT ![id].pc = "done"]
    /\ UNCHANGED <<nextID, IDm, stdoutM, stderrM, client, ret, coll, proc, now,
                   crashed, requests, issued, signalled, seen, backing,
                   snapOut>>

\* ----------------------------------------------------- copyPipeToStringArray
\* what the process of job id has written to stream s so far
Written(id, s) ==
    IF proc[id].st \in {"running", "zombie", "reaped"}
    THEN WritesTo(Script(ExeOf(id)), s) ELSE << >>

\* the destination slice of the collector of stream s
Dest(st, s) == IF s = "stdout" THEN st.Stdout ELSE st.Stderr

\* the lines ReadString can return from the first f writes of the stream
Buffered(id, s, f) == LinesOf(SubSeq(Written(id, s), 1, f))

\* s, err := r.ReadString('\n') returning a line.  bufio returns the next line
\* it holds; with none it reads the pipe, if the read end is open, taking all
\* that is there.
copyPipe_Read(id, s) ==
    /\ Live
    /\ coll[id][s].pc = "read"
    /\ LET f == coll[id][s].fetched
           n == Len(Dest(allJobs[id], s))
           all == Len(Written(id, s))
       IN IF Len(Buffered(id, s, f)) > n
          THEN coll' = [coll EXCEPT ![id][s].pc = "lock"]
          ELSE /\ proc[id].st \in {"running", "zombie"}
               /\ Len(Buffered(id, s, all)) > n
               /\ coll' = [coll EXCEPT ![id][s].fetched = all, ![id][s].pc = "lock"]
    /\ UNCHANGED <<nextID, IDm, allJobs, statusM, stdoutM, stderrM, client, ret,
                   runner, proc, now, crashed, requests, issued, signalled,
                   seen, backing,
                   snapOut>>

\* ReadString has returned an error or will: the read end is closed (by Wait,
\* or by a failed Start) or the process has ended, and bufio holds no further
\* line; a last line that has no newline is dropped.  The loop is over and
\* the collector writes nothing more.
CollectorEnded(id, s) ==
    /\ coll[id][s].pc = "read"
    /\ proc[id].st \in {"zombie", "reaped", "nostart"}
    /\ LET n == Len(Dest(allJobs[id], s))
       IN /\ Len(Buffered(id, s, coll[id][s].fetched)) = n
          /\ proc[id].st = "zombie" => Len(Buffered(id, s, Len(Written(id, s)))) = n

CollT(id, s) == <<s, id>>

\* m.Lock(), m being the mutex the collector was started with
copyPipe_Lock(id, s) ==
    /\ Live
    /\ coll[id][s].pc = "lock"
    /\ IF s = "stdout"
       THEN /\ stdoutM[id] = NoOwner
            /\ stdoutM' = [stdoutM EXCEPT ![id] = CollT(id, s)]
            /\ UNCHANGED stderrM
       ELSE /\ stderrM[id] = NoOwner
            /\ stderrM' = [stderrM EXCEPT ![id] = CollT(id, s)]
            /\ UNCHANGED stdoutM
    /\ coll' = [coll EXCEPT ![id][s].pc = "append"]
    /\ UNCHANGED <<nextID, IDm, allJobs, statusM, client, ret, runner, proc, now,
                   crashed, requests, issued, signalled, seen, backing,
                   snapOut>>

\* The capacities append may give the array it allocates for n elements: "a
\* new, sufficiently large underlying array"; how much larger is the runtime's
\* choice, here as many as needed or twice as many.
GrowCaps(n) == {n, 2 * n}

\* an array of cap cells that starts with the elements of seq (lines: sequences
\* of characters); the other cells hold the empty line
Pad(seq, cap) == seq \o [i \in 1..(cap - Len(seq)) |-> << >>]

\* the job's status with the slice of stream s showing seq
WithDest(st, s, seq) ==
    IF s = "stdout" THEN [st EXCEPT !.Stdout = seq] ELSE [st EXCEPT !.Stderr = seq]

\* *dest = []string{line}: the slice replaced instead of extended
copyPipe_Append_Overwrite(id, s) ==
    /\ Live
    /\ coll[id][s].pc = "append"
    /\ LET n == Len(Dest(allJobs[id], s))
           line == TrimSpace(Buffered(id, s, coll[id][s].fetched)[n + 1])
       IN /\ allJobs' = [allJobs EXCEPT ![id] = WithDest(@, s, <<line>>)]
          /\ backing' = [backing EXCEPT ![id][s] =
                            [gen |-> @.gen + 1, cells |-> <<line>>]]
    /\ IF s = "stdout"
       THEN stdoutM' = [stdoutM EXCEPT ![id] = NoOwner] /\ UNCHANGED stderrM
       ELSE stderrM' = [stderrM EXCEPT ![id] = NoOwner] /\ UNCHANGED stdoutM
    /\ coll' = [coll EXCEPT ![id][s].pc = "read"]
    /\ UNCHANGED <<nextID, IDm, statusM, client, ret, runner, proc, now, crashed,
                   requests, issued, signalled, seen, snapOut>>

\* a collector that, once the array is full, keeps only the newest line in its
\* last cell instead of growing the slice
copyPipe_Append_KeepLast(id, s) ==
    /\ Live
    /\ coll[id][s].pc = "append"
    /\ LET n == Len(Dest(allJobs[id], s))
           line == TrimSpace(Buffered(id, s, coll[id][s].fetched)[n + 1])
           b == backing[id][s]
       IN \E cap \in (IF n = 0 THEN GrowCaps(1) ELSE {Len(b.cells)}) :
            LET cells == IF n = 0 THEN Pad(<<line>>, cap)
                         ELSE IF n < cap THEN [b.cells EXCEPT ![n + 1] = line]
                         ELSE [b.cells EXCEPT ![n] = line]
                len == IF n < cap THEN n + 1 ELSE n
            IN /\ backing' = [backing EXCEPT ![id][s] =
                        [gen |-> IF n = 0 THEN b.gen + 1 ELSE b.gen,
                         cells |-> cells]]
               /\ allJobs' = [allJobs EXCEPT ![id] =
                        WithDest(@, s, SubSeq(cells, 1, len))]
    /\ IF s = "stdout"
       THEN stdoutM' = [stdoutM EXCEPT ![id] = NoOwner] /\ UNCHANGED stderrM
       ELSE stderrM' = [stderrM EXCEPT ![id] = NoOwner] /\ UNCHANGED stdoutM
    /\ coll' = [coll EXCEPT ![id][s].pc = "read"]
    /\ UNCHANGED <<nextID, IDm, statusM, client, ret, runner, proc, now, crashed,
                   requests, issued, signalled, seen, snapOut>>

\* *dest = append(*dest, strings.TrimSpace(s)); m.Unlock().  With room in the
\* array the slice points to, append writes the cell after the last element
\* and extends the slice; without, it allocates an array, copies the elements
\* to it and leaves the old array as it is.
copyPipe_Append(id, s) ==
    /\ Live
    /\ coll[id][s].pc = "append"
    /\ LET n == Len(Dest(allJobs[id], s))
           line == TrimSpace(Buffered(id, s, coll[id][s].fetched)[n + 1])
           b == backing[id][s]
           room == n < Len(b.cells)
       IN \E cap \in (IF room THEN {Len(b.cells)} ELSE GrowCaps(n + 1)) :
            LET cells == IF room THEN [b.cells EXCEPT ![n + 1] = line]
                         ELSE Pad(Append(SubSeq(b.cells, 1, n), line), cap)
            IN /\ backing' = [backing EXCEPT ![id][s] =
                        [gen |-> IF room THEN b.gen ELSE b.gen + 1,
                         cells |-> cells]]
               /\ allJobs' = [allJobs EXCEPT ![id] =
                        WithDest(@, s, SubSeq(cells, 1, n + 1))]
    /\ IF s = "stdout"
       THEN stdoutM' = [stdoutM EXCEPT ![id] = NoOwner] /\ UNCHANGED stderrM
       ELSE stderrM' = [stderrM EXCEPT ![id] = NoOwner] /\ UNCHANGED stdoutM
    /\ coll' = [coll EXCEPT ![id][s].pc = "read"]
    /\ UNCHANGED <<nextID, IDm, statusM, client, ret, runner, proc, now, crashed,
                   requests, issued, signalled, seen, snapOut>>

\* --------------------------------------------------------- the child process
\* the process ends by itself
Proc_Exit(id, e) ==
    /\ Live
    /\ proc[id].st = "running"
    /\ e \in OwnExits(ExeOf(id))
    /\ proc' = [proc EXCEPT ![id].st = "zombie", ![id].exit = e]
    /\ UNCHANGED <<nextID, IDm, allJobs, statusM, stdoutM, stderrM, client, ret,
                   runner, coll, now, crashed, requests, issued, signalled,
                   seen, backing,
                   snapOut>>

\* ------------------------------------------------------------- specification
\* the steps the agent can take while it serves the requests of the goroutines Cs
Serve(Cs) ==
    \/ \E c \in Cs, cmd \in CommandNames : getNewJobID_Lock(c, cmd)
    \/ \E c \in Cs, t \in Times : getNewJobID_Incr(c, t)
    \/ \E c \in Cs : StartJob_Insert(c)
    \/ \E c \in Cs : CopyStatus_LockStatus(c)
    \/ \E c \in Cs : CopyStatus_LockStdout(c)
    \/ \E c \in Cs : CopyStatus_Copy(c)
    \/ \E c \in Cs, id \in LookupIDs : getJobStatus_Lookup(c, id)
    \/ \E c \in Cs, id \in LookupIDs : StopJob_Lookup(c, id)
    \/ \E c \in Cs : StopJob_Check(c)
    \/ \E c \in Cs : StopJob_Signal(c)
    \/ \E c \in Cs, since \in 0..MaxTime : GetJobs(c, since)
    \/ \E c \in Cs : Return(c)
    \/ \E id \in JobIDs : runJob_NotFound(id)
    \/ \E id \in JobIDs, out \in SetupOutcomes : runJob_PipeError(id, out)
    \/ \E id \in JobIDs, ok \in BOOLEAN : runJob_Start(id, ok)
    \/ \E id \in JobIDs : runJob_SetRunning(id)
    \/ \E id \in JobIDs : runJob_SetPID(id)
    \/ \E id \in JobIDs : runJob_Wait(id)
    \/ \E id \in JobIDs, t \in Times : runJob_Finish(id, t)
    \/ \E id \in JobIDs : runJob_Complete(id)
    \/ \E id \in JobIDs, s \in Streams : copyPipe_Read(id, s)
    \/ \E id \in JobIDs, s \in Streams : copyPipe_Lock(id, s)
    \/ \E id \in JobIDs, s \in Streams : copyPipe_Append(id, s)
    \/ \E id \in JobIDs, e \in {"exit0", "exit1"} : Proc_Exit(id, e)

Next == Serve(Clients)

Spec == Init /\ [][Next]_vars

\* ----------------------------------------------------------------- fairness
\* The Go scheduler runs every runnable goroutine, a sync.Mutex hands itself
\* to a goroutine that has waited for it (starvation mode), and a process that
\* ends by itself does end.  A new request is not owed.
ClientStep(c) ==
    \/ \E t \in Times : getNewJobID_Incr(c, t)
    \/ StartJob_Insert(c)
    \/ CopyStatus_LockStatus(c)
    \/ CopyStatus_LockStdout(c)
    \/ CopyStatus_Copy(c)
    \/ StopJob_Check(c)
    \/ StopJob_Signal(c)
    \/ Return(c)

RunnerStep(id) ==
    \/ runJob_NotFound(id)
    \/ \E out \in SetupOutcomes : runJob_PipeError(id, out)
    \/ \E ok \in BOOLEAN : runJob_Start(id, ok)
    \/ runJob_SetRunning(id)
    \/ runJob_SetPID(id)
    \/ runJob_Wait(id)
    \/ \E t \in Times : runJob_Finish(id, t)
    \/ runJob_Complete(id)

CollectorStep(id, s) ==
    copyPipe_Read(id, s) \/ copyPipe_Lock(id, s) \/ copyPipe_Append(id, s)

ProcStep(id) == \E e \in {"exit0", "exit1"} : Proc_Exit(id, e)

Fairness ==
    /\ \A c \in Clients : SF_vars(ClientStep(c))
    /\ \A id \in JobIDs : SF_vars(RunnerStep(id))
    /\ \A id \in JobIDs, s \in Streams : SF_vars(CollectorStep(id, s))
    /\ \A id \in JobIDs : WF_vars(ProcStep(id))

FairSpec == Spec /\ Fairness

\* The behaviours in which the agent is sent one request at a time, all served
\* by the first request goroutine: a subset of the behaviours of Spec, in which
\* the runners, the collectors and the processes still interleave freely with
\* the one request in flight.
SerialNext == Serve({1})

\* a step of a request in flight, of a runner, of a collector or of a process
Progress ==
    \/ \E c \in Clients : ClientStep(c)
    \/ \E id \in JobIDs : RunnerStep(id)
    \/ \E id \in JobIDs, s \in Streams : CollectorStep(id, s)
    \/ \E id \in JobIDs : ProcStep(id)

\* No goroutine repeats a step (a request, a runner and a collector each only
\* advance), so a run treats every goroutine as Fairness asks exactly when it
\* does not stop while a step of some goroutine is enabled.
FairSerialSpec == Init /\ [][SerialNext]_vars /\ WF_vars(Progress)

\* ------------------------------------------------------------------- claims
Known(id) == id \in DOMAIN allJobs
HasSnap(c) == ret[c].status # NoStatus
Snap(c) == ret[c].status[1]
Whitelisted(cmd) == cmd \in DOMAIN runnableCommands

\* C1: the ids getNewJobID hands out, in the order it returns them, start at 0
\* and are strictly increasing, so no id is handed out twice.
C1_IdsUnique ==
    /\ Len(issued) > 0 => issued[1] = 0
    /\ \A i, j \in 1..Len(issued) : i < j => issued[i] < issued[j]

\* two StartJob calls in flight at once, each with its id
C1_Witness ==
    /\ Len(issued) = 2
    /\ \A c \in Clients : client[c].op = "StartJob" /\ client[c].pc # "gni"

\* C2: no step lowers a job's lifecycle state (so its moves are NotStarted ->
\* Running -> Completed or NotStarted -> Completed and none leaves Completed),
\* and a snapshot of a job never shows an earlier state than the snapshot
\* taken of it before.
C2_StateMonotone ==
    [][/\ \A id \in DOMAIN allJobs :
            /\ allJobs'[id].Status >= allJobs[id].Status
            /\ allJobs'[id].Status \in
                    {STATUS_NOT_STARTED, STATUS_RUNNING, STATUS_COMPLETED}
       /\ \A id \in JobIDs : seen'[id] >= seen[id]]_vars

\* StartJob has returned its snapshot, which showed NotStarted, and
\* GetJobStatus is about to copy the same job, now Completed
C2_Witness ==
    \E c \in Clients :
        /\ client[c].op = "GetJobStatus"
        /\ client[c].pc = "cs_stderr"
        /\ \A d \in Clients : client[d].op # "StartJob"
        /\ seen[client[c].id] = STATUS_NOT_STARTED
        /\ allJobs[client[c].id].Status = STATUS_COMPLETED

\* C3: no snapshot CopyStatus returns is torn: none has a PID while its state
\* is NotStarted, none has a FinishTime while its state is not Completed.
C3_NoTornSnapshot ==
    \A c \in Clients :
        HasSnap(c) =>
            /\ ~(Snap(c).PID # 0 /\ Snap(c).Status = STATUS_NOT_STARTED)
            /\ ~(Snap(c).FinishTime # 0 /\ Snap(c).Status # STATUS_COMPLETED)

\* a snapshot taken of a running job whose runner is about to write the
\* finish time, or holds statusM writing it
C3_Witness ==
    \E c \in Clients :
        /\ HasSnap(c)
        /\ Snap(c).Status = STATUS_RUNNING
        /\ Snap(c).PID # 0
        /\ runner[ret[c].id].pc = "finish"

\* C4: a job whose command name is not whitelisted eventually is Completed
\* with ExitCode -1 and an error message, and no snapshot shows it Running.
C4_NotWhitelisted ==
    /\ [](\A c \in Clients :
            (HasSnap(c) /\ ~Whitelisted(Snap(c).CommandName))
                => Snap(c).Status # STATUS_RUNNING)
    /\ \A id \in JobIDs :
            (Known(id) /\ ~Whitelisted(allJobs[id].CommandName))
                ~> (/\ Known(id)
                    /\ allJobs[id].Status = STATUS_COMPLETED
                    /\ allJobs[id].ExitCode = -1
                    /\ allJobs[id].Error # "")

\* C5: a job whose process exits with code 0 eventually is Completed, and
\* every snapshot that shows it Completed has ExitCode 0, no error, a PID and
\* FinishTime >= StartTime.
C5_ExitZero ==
    /\ [](\A c \in Clients :
            (/\ HasSnap(c)
             /\ proc[ret[c].id].exit = "exit0"
             /\ Snap(c).Status = STATUS_COMPLETED)
                => /\ Snap(c).ExitCode = 0
                   /\ Snap(c).Error = ""
                   /\ Snap(c).PID > 0
                   /\ Snap(c).FinishTime >= Snap(c).StartTime)
    /\ \A id \in JobIDs :
            (proc[id].exit = "exit0")
                ~> (Known(id) /\ allJobs[id].Status = STATUS_COMPLETED)

\* the trimmed newline-terminated lines an executable writes to stdout
StdoutLines(exe) == MapTrim(LinesOf(WritesTo(Script(exe), "stdout")))

\* C6: every snapshot that shows Completed a job whose process wrote its lines
\* and exited has exactly those lines, trimmed, in order, as its stdout.
C6_AllLines ==
    \A c \in Clients :
        (/\ HasSnap(c)
         /\ Snap(c).Status = STATUS_COMPLETED
         /\ proc[ret[c].id].exit \in {"exit0", "exit1"})
            => Snap(c).Stdout = StdoutLines(runnableCommands[Snap(c).CommandName])

\* C7: when StopJob's check finds the job NotStarted or Completed, StopJob
\* returns "Job not running." and no status, no signal is sent, and the step
\* leaves every job's status as it was.
C7_StopNotRunning ==
    [][\A c \in Clients :
          (/\ client[c].pc = "stop_check"
           /\ client'[c] # client[c]
           /\ allJobs[client[c].id].Status # STATUS_RUNNING)
              => /\ client'[c].pc = "return"
                 /\ ret'[c].err = "Job not running."
                 /\ ret'[c].status = NoStatus
                 /\ signalled' = signalled
                 /\ proc' = proc
                 /\ allJobs' = allJobs]_vars

\* StopJob has just answered "Job not running." for a Completed job
C7_Witness ==
    \E c \in Clients :
        /\ ret[c].op = "StopJob"
        /\ ret[c].err = "Job not running."
        /\ allJobs[ret[c].id].Status = STATUS_COMPLETED

\* a step of the StopJob call of client c
StopJobStep(c) ==
    /\ client'[c] # client[c]
    /\ client[c].op = "StopJob" \/ client'[c].op = "StopJob" \/ ret'[c].op = "StopJob"

\* C8: once StopJob has found Running a job whose process is alive and ends
\* only when it is signalled, the job eventually is Completed with an error
\* message and a non-zero exit code (unless the agent has died in between); no
\* step of StopJob writes a job's status.
C8_StopRunning ==
    /\ [][\A c \in Clients : StopJobStep(c) => allJobs' = allJobs]_vars
    /\ \A id \in JobIDs :
            (\E c \in Clients :
                /\ client[c].pc = "stop_signal"
                /\ client[c].id = id
                /\ proc[id].st = "running"
                /\ OwnExits(ExeOf(id)) = {})
                ~> (\/ crashed
                    \/ /\ Known(id)
                       /\ allJobs[id].Status = STATUS_COMPLETED
                       /\ allJobs[id].Error # ""
                       /\ allJobs[id].ExitCode # 0)

\* a step in which client c's GetJobStatus or StopJob looks up an id the
\* registry does not hold
UnknownLookup(c) ==
    /\ client[c].pc = "idle"
    /\ client'[c].pc # "idle"
    /\ \/ client'[c].op \in {"GetJobStatus", "StopJob"}
       \/ ret'[c].op \in {"GetJobStatus", "StopJob"}
    /\ (IF client'[c].pc = "return" THEN ret'[c].id ELSE client'[c].id)
            \notin DOMAIN allJobs

\* C9: GetJobStatus and StopJob on an id the registry does not hold return
\* "Job not found." and no status, and change nothing in the registry, in any
\* job or in any process.
C9_UnknownId ==
    [][\A c \in Clients :
          UnknownLookup(c)
              => /\ client'[c].pc = "return"
                 /\ ret'[c].err = "Job not found."
                 /\ ret'[c].status = NoStatus
                 /\ UNCHANGED <<nextID, allJobs, statusM, stdoutM, stderrM,
                                runner, coll, proc, signalled>>]_vars

\* StopJob has just answered "Job not found." while the registry holds a job
C9_Witness ==
    \E c \in Clients :
        /\ ret[c].op = "StopJob"
        /\ ret[c].err = "Job not found."
        /\ ret[c].status = NoStatus
        /\ DOMAIN allJobs # {}

\* C10: the status StartJob returns shows the job as just registered:
\* NotStarted, ExitCode -1, PID 0, no error.
C10_StartReturnsNotStarted ==
    \A c \in Clients :
        (HasSnap(c) /\ ret[c].op = "StartJob")
            => /\ Snap(c).Status = STATUS_NOT_STARTED
               /\ Snap(c).ExitCode = -1
               /\ Snap(c).PID = 0
               /\ Snap(c).Error = ""

\* C11: GetJobs(since) sends the id of every job of the registry whose
\* StartTime is greater than since, and no other id.
C11_GetJobsSendsIds ==
    \A c \in Clients :
        ret[c].op = "GetJobs"
            => ret[c].ids = {id \in DOMAIN allJobs :
                                allJobs[id].StartTime > ret[c].id}

\* C12: id allocation and registry insertion are one atomic step: in every
\* state (a reader can look the registry up in any) every id below nextID is
\* in the registry, so whoever finds id k finds every id smaller than k.
C12_AllocInsertAtomic ==
    /\ \A id \in JobIDs : id < nextID => Known(id)
    /\ \A k \in DOMAIN allJobs : \A id \in 0..k : Known(id)

\* C13: a whitelisted job whose pipe setup or process start has failed is
\* never Running, is Completed with an error message and ExitCode -1 once its
\* runner has returned, and the agent lives on.
C13_SetupFailure ==
    /\ \A id \in DOMAIN allJobs :
            proc[id].st = "nostart" => allJobs[id].Status # STATUS_RUNNING
    /\ \A id \in DOMAIN allJobs :
            (/\ Whitelisted(allJobs[id].CommandName)
             /\ runner[id].pc = "done"
             /\ proc[id].st = "none")
                => /\ allJobs[id].Status = STATUS_COMPLETED
                   /\ allJobs[id].Error # ""
                   /\ allJobs[id].ExitCode = -1
    /\ ~crashed

\* C14: no step changes the stdout or the stderr sequence of a job that is
\* Completed.
C14_OutputFrozenOnceCompleted ==
    [][\A id \in DOMAIN allJobs :
          allJobs[id].Status = STATUS_COMPLETED
              => /\ allJobs'[id].Stdout = allJobs[id].Stdout
                 /\ allJobs'[id].Stderr = allJobs[id].Stderr]_vars

\* the goroutines that take job locks
Threads ==
    {ClientT(c) : c \in Clients} \cup {RunnerT(id) : id \in JobIDs}
        \cup {CollT(id, s) : id \in JobIDs, s \in Streams}

NoLock == <<"none", 0>>

\* the job lock a goroutine is at the point of acquiring: <<mutex, job>>
Waiting(t) ==
    IF \E c \in Clients : t = ClientT(c)
    THEN LET c == t[2]
         IN IF client[c].pc = "cs_status" THEN <<"status", client[c].id>>
            ELSE IF client[c].pc = "cs_stdout" THEN <<"stdout", client[c].id>>
            ELSE IF client[c].pc = "cs_stderr" THEN <<"stderr", client[c].id>>
            ELSE NoLock
    ELSE IF \E id \in JobIDs : t = RunnerT(id)
    THEN LET id == t[2]
         IN IF \/ runner[id].pc \in {"setRunning", "finish"}
               \/ runner[id].pc = "start" /\ ~Whitelisted(allJobs[id].CommandName)
            THEN <<"status", id>> ELSE NoLock
    ELSE IF coll[t[2]][t[1]].pc = "lock" THEN t ELSE NoLock

\* the holder of a job lock
Owner(l) ==
    IF l[1] = "status" THEN statusM[l[2]]
    ELSE IF l[1] = "stdout" THEN stdoutM[l[2]]
    ELSE stderrM[l[2]]

Blocked(t) == Waiting(t) # NoLock /\ Owner(Waiting(t)) # NoOwner

\* following the holders of the locks waited for, from t, at most n times,
\* ends at a goroutine that is not blocked
RECURSIVE ReachesFree(_, _)
ReachesFree(t, n) ==
    IF ~Blocked(t) THEN TRUE
    ELSE IF n = 0 THEN FALSE
    ELSE ReachesFree(Owner(Waiting(t)), n - 1)

\* C16: a goroutine that holds stdoutM holds statusM, one that holds stderrM
\* holds stdoutM and statusM (the order status, stdout, stderr); the runner
\* holds only statusM and a collector only the mutex of its stream; and while
\* the agent lives every goroutine blocked on a job lock waits, directly or
\* through other blocked holders, for one that is not blocked: no cycle.
C16_LockOrder ==
    /\ \A id \in JobIDs :
        /\ statusM[id] \in {NoOwner, RunnerT(id)} \cup {ClientT(c) : c \in Clients}
        /\ stdoutM[id] \in {NoOwner, CollT(id, "stdout")}
                            \cup {ClientT(c) : c \in Clients}
        /\ stderrM[id] \in {NoOwner, CollT(id, "stderr")}
                            \cup {ClientT(c) : c \in Clients}
        /\ \A c \in Clients :
            /\ stdoutM[id] = ClientT(c) => statusM[id] = ClientT(c)
            /\ stderrM[id] = ClientT(c) => stdoutM[id] = ClientT(c)
    /\ ~crashed => \A t \in Threads : ReachesFree(t, 3)

\* a reader holds statusM and stdoutM and waits for stderrM, which the stderr
\* collector holds, while the runner waits for statusM
C16_Witness ==
    \E c \in Clients, id \in JobIDs :
        /\ statusM[id] = ClientT(c)
        /\ stdoutM[id] = ClientT(c)
        /\ client[c].pc = "cs_stderr"
        /\ stderrM[id] = CollT(id, "stderr")
        /\ Blocked(RunnerT(id))

\* C17: when StopJob, past its Running check, signals a process that has
\* already exited (a zombie, or reaped), it returns an error and no status,
\* the agent does not crash, and the step writes no job's status.
C17_StopAfterExit ==
    [][\A c \in Clients :
          (/\ client[c].pc = "stop_signal"
           /\ client'[c] # client[c]
           /\ proc[client[c].id].st \in {"zombie", "reaped"})
              => /\ client'[c].pc = "return"
                 /\ ret'[c].err # ""
                 /\ ret'[c].status = NoStatus
                 /\ ~crashed'
                 /\ allJobs' = allJobs]_vars

\* C18: in every snapshot an ExitCode other than -1 comes with the state
\* Completed and a PID, and a snapshot that shows Completed a job whose
\* process never was spawned has ExitCode -1.
C18_ExitCodeOnlyAtExit ==
    \A c \in Clients :
        HasSnap(c) =>
            /\ Snap(c).ExitCode # -1
                => Snap(c).Status = STATUS_COMPLETED /\ Snap(c).PID # 0
            /\ (Snap(c).Status = STATUS_COMPLETED /\ ret[c].id \notin Forked)
                => Snap(c).ExitCode = -1

\* a snapshot that shows a job Completed with the exit code of its process
C18_Witness ==
    \E c \in Clients :
        /\ HasSnap(c)
        /\ Snap(c).Status = STATUS_COMPLETED
        /\ Snap(c).ExitCode = 1

\* C19: StopJob reads the job's state and pid, and the runner reads the output
\* sequences when it logs them at finalization, only while holding the lock
\* that guards what is read: statusM for StopJob's two reads, stdoutM and
\* stderrM (besides statusM) for the runner's.
C19_ReadsUnderLock ==
    [][/\ \A c \in Clients :
            (client[c].pc \in {"stop_check", "stop_signal"} /\ client'[c] # client[c])
                => statusM[client[c].id] = ClientT(c)
       /\ \A id \in JobIDs :
            (runner[id].pc = "finish" /\ runner'[id].pc = "complete")
                => /\ statusM'[id] = RunnerT(id)
                   /\ stdoutM'[id] = RunnerT(id)
                   /\ stderrM'[id] = RunnerT(id)]_vars

\* the trimmed newline-terminated lines the process of job id has written to
\* stream s, in the order it wrote them
Emitted(id, s) == MapTrim(LinesOf(Written(id, s)))

\* C15: the sequences are append-only: the stdout (stderr) of each snapshot of
\* a job extends, as a prefix, that of the snapshot taken of it before, no
\* step does anything to a job's sequence but extend it, and every snapshot's
\* sequence is a prefix of the lines the process has written to that stream,
\* trimmed as the collector stores them, in the order written.
C15_AppendOnly ==
    [][/\ \A id \in JobIDs, s \in Streams :
            IsPrefix(snapOut[id][s].val, snapOut'[id][s].val)
       /\ \A id \in DOMAIN allJobs, s \in Streams :
            IsPrefix(Dest(allJobs[id], s), Dest(allJobs'[id], s))
       /\ \A c \in Clients :
            (ret'[c] # ret[c] /\ ret'[c].status # NoStatus)
                => \A s \in Streams :
                     /\ Dest(ret'[c].status[1], s) = snapOut'[ret'[c].id][s].val
                     /\ IsPrefix(Dest(ret'[c].status[1], s),
                                 IF ret'[c].id \in Forked
                                 THEN Emitted(ret'[c].id, s) ELSE << >>)]_vars

\* a second snapshot about to be copied of a job whose first snapshot showed
\* one stdout line and whose stdout now has two
C15_Witness ==
    \E c \in Clients :
        /\ client[c].pc = "cs_stderr"
        /\ client[c].op = "GetJobStatus"
        /\ Len(snapOut[client[c].id]["stdout"].val) = 1
        /\ Len(allJobs[client[c].id].Stdout) = 2

\* what the last snapshot taken of job id shows of stream s now: its slice
\* still points to the array it was copied with, which is the job's current
\* array or one that no slice of the job points to any more
Visible(id, s) ==
    IF snapOut[id][s].gen = backing[id][s].gen
    THEN SubSeq(backing[id][s].cells, 1, Len(snapOut[id][s].val))
    ELSE snapOut[id][s].val

\* C20: what a returned snapshot shows of stdout and stderr stays what it was
\* when it was copied, whatever the collectors append afterwards (its other
\* fields are copied by value).
C20_SnapshotUnchanged ==
    \A id \in JobIDs, s \in Streams : Visible(id, s) = snapOut[id][s].val

\* a snapshot that shows one line, and a collector that has since appended a
\* second line in place, to the array the snapshot's slice points to
C20_Witness ==
    \E id \in JobIDs, s \in Streams :
        /\ Len(snapOut[id][s].val) = 1
        /\ snapOut[id][s].gen = backing[id][s].gen
        /\ Len(Dest(allJobs[id], s)) = 2
====
